---- MODULE Spec2Model ----
(***************************************************************************)
(* Verification model of straxen's EventPatternFit plugin                  *)
(* (src/straxen/plugins/event_patternfit.py): the modified-Poisson         *)
(* likelihood statistic, the eligibility gating of compute, and the        *)
(* iterative two-sided binomial test.                                      *)
(*                                                                         *)
(* Numbers.  A float of the program is a pair <<tag, v>>: <<"nan", 0>>,    *)
(* <<"inf", 1>>, <<"inf", -1>>, or <<"fin", v>> with v an integer count of *)
(* 1/Scale units (fixed point, six decimal digits).  Arithmetic on the     *)
(* pairs follows IEEE-754 for the special values (NaN compares false with  *)
(* everything, 0 * inf = NaN, inf - inf = NaN, ...).  log, exp, gammaln    *)
(* and betainc are evaluated numerically at that resolution.               *)
(***************************************************************************)
EXTENDS Integers, Sequences, FiniteSets, TLC

\* ------------------------------------------------------------------------
\* Fixed-point reals: an integer v stands for v / Scale.
\* ------------------------------------------------------------------------
Kilo == 10 * 100
Scale == Kilo * Kilo

Abs(a) == IF a < 0 THEN -a ELSE a
Sgn(a) == IF a < 0 THEN -1 ELSE 1

\* a * b / Scale for a, b >= 0, without leaving 32-bit integers
MulFixU(a, b) ==
    LET ah == a \div Kilo
        al == a % Kilo
        bh == b \div Kilo
        bl == b % Kilo
    IN  ah * bh + ((ah * bl + al * bh + ((al * bl) \div Kilo)) \div Kilo)

MulFix(a, b) == Sgn(a) * Sgn(b) * MulFixU(Abs(a), Abs(b))

RECURSIVE DivDigits(_, _, _)
DivDigits(r, b, nd) ==
    IF nd = 0 THEN 0
    ELSE LET r10 == r * 10
         IN  (r10 \div b) * (10 ^ (nd - 1)) + DivDigits(r10 % b, b, nd - 1)

\* a * Scale / b for a >= 0, b > 0 (long division, six digits)
DivFixU(a, b) ==
    IF a < 2000 THEN (a * Scale) \div b
    ELSE (a \div b) * Scale + DivDigits(a % b, b, 6)

DivFix(a, b) == Sgn(a) * Sgn(b) * DivFixU(Abs(a), Abs(b))

Ln2 == 693147 + 0
Ln10 == 2302585 + 0
HalfLn2Pi == 918939 + 0

\* The numerical functions are evaluated by one recursive operator,
\* Eval(f, a, b, c), which is defined after them: Eval("binom_pmf", k, n, p)
\* is the value of binom_pmf at (k, n, p).  Ln, Exp, LGamma and BetaInc are the entry points of
\* the four special functions.
RECURSIVE Eval(_, _, _, _)

\* natural logarithm of x > 0
Ln(x) == Eval("Ln", x, 0, 0)

\* exponential
Exp(x) == Eval("Exp", x, 0, 0)

\* ln Gamma(x) for x > 0
LGamma(x) == Eval("LGamma", x, 0, 0)

\* regularized incomplete beta function I_x(a, b) for a, b > 0 and 0 < x < 1
BetaInc(a, b, x) == Eval("BetaInc", a, b, x)

\* ln(1+t)/(1-t) series on the reduced argument (|t| <= 1/5)
LnSeries(x) ==
    LET t  == DivFix(x - Scale, x + Scale)
        t2 == MulFix(t, t)
        s4 == Scale \div 9
        s3 == (Scale \div 7) + MulFix(t2, s4)
        s2 == (Scale \div 5) + MulFix(t2, s3)
        s1 == (Scale \div 3) + MulFix(t2, s2)
        s0 == Scale + MulFix(t2, s1)
    IN  2 * MulFix(t, s0)

\* Ln: reduction of the argument to [3/4, 3/2)
LnReduce(x) ==
    IF 2 * x >= 3 * Scale THEN Ln2 + Ln(x \div 2)
    ELSE IF 4 * x < 3 * Scale THEN Ln(2 * x) - Ln2
    ELSE LnSeries(x)

RECURSIVE ExpTaylor(_, _, _)
\* 1 + r/i * (1 + r/(i+1) * ( ... )) up to order nmax
ExpTaylor(r, i, nmax) ==
    IF i > nmax THEN Scale
    ELSE Scale + (MulFix(r, ExpTaylor(r, i + 1, nmax)) \div i)

\* Exp: arguments below -20 underflow to 0 at this resolution
ExpScale(x) ==
    IF x < -20 * Scale THEN 0
    ELSE LET k == x \div Ln2
             r == x - k * Ln2
             e == ExpTaylor(r, 1, 10)
         IN  IF k >= 0 THEN e * (2 ^ k) ELSE e \div (2 ^ (-k))

\* Stirling's series, used for x >= 4
Stirling(x) ==
    LET lx  == Ln(x)
        ix  == DivFix(Scale, x)
        ix2 == MulFix(ix, ix)
        c   == (Scale \div 12) - MulFix(ix2, (Scale \div 360) - MulFix(ix2, Scale \div 1260))
    IN  MulFix(x - (Scale \div 2), lx) - x + HalfLn2Pi + MulFix(ix, c)

RECURSIVE RisingProd(_, _)
\* x (x+1) ... (x+m-1)
RisingProd(x, m) ==
    IF m = 0 THEN Scale ELSE MulFix(RisingProd(x, m - 1), x + (m - 1) * Scale)

\* LGamma: arguments below 4 are shifted up
LGammaShift(x) ==
    IF x >= 4 * Scale THEN Stirling(x)
    ELSE LET m == 4 - (x \div Scale)
         IN  Stirling(x + m * Scale) - Ln(RisingProd(x, m))

\* I_x(a, b) by its power series, x^a (1-x)^b / (a B(a,b)) * sum_m t_m with
\* t_0 = 1, t_(m+1) = t_m * x * (a+b+m) / (a+1+m); used for x below the mean
RECURSIVE BetaSeries(_, _, _, _, _)
BetaSeries(a, b, x, m, t) ==
    IF t = 0 \/ m > 200 THEN 0
    ELSE t + BetaSeries(a, b, x, m + 1,
                        MulFix(t, DivFix(MulFix(x, a + b + m * Scale), a + (m + 1) * Scale)))

BetaFront(a, b, x) ==
    Exp(LGamma(a + b) - LGamma(a) - LGamma(b)
        + MulFix(a, Ln(x)) + MulFix(b, Ln(Scale - x)))

BetaLower(a, b, x) ==
    MulFix(DivFix(BetaFront(a, b, x), a), BetaSeries(a, b, x, 0, Scale))

\* BetaInc: the series on the side of the mean where it converges
BetaSwitch(a, b, x) ==
    IF MulFix(x, a + b + 2 * Scale) <= a + Scale
    THEN BetaLower(a, b, x)
    ELSE Scale - BetaLower(b, a, Scale - x)

\* ------------------------------------------------------------------------
\* Floats: <<"fin", v>> | <<"nan", 0>> | <<"inf", +1 / -1>>
\* ------------------------------------------------------------------------
NaN == <<"nan", 0>>
PInf == <<"inf", 1>>
NInf == <<"inf", -1>>
F(v) == <<"fin", v>>
\* the float of an integer
N(i) == <<"fin", i * Scale>>

IsNaN(a) == a[1] = "nan"
IsInf(a) == a[1] = "inf"
IsFin(a) == a[1] = "fin"
isfinite(a) == IsFin(a)

Big == 2000 * Scale
\* position on the extended real line (not for NaN)
Ord(a) == IF IsFin(a) THEN a[2] ELSE a[2] * Big
\* -1, 0, +1
FSign(a) == IF IsInf(a) THEN a[2] ELSE IF a[2] > 0 THEN 1 ELSE IF a[2] < 0 THEN -1 ELSE 0

\* comparisons: every comparison with NaN is false
FLt(a, b) == ~IsNaN(a) /\ ~IsNaN(b) /\ Ord(a) < Ord(b)
FLe(a, b) == ~IsNaN(a) /\ ~IsNaN(b) /\ Ord(a) <= Ord(b)
FGt(a, b) == FLt(b, a)
FGe(a, b) == FLe(b, a)
FEq(a, b) == ~IsNaN(a) /\ ~IsNaN(b) /\ Ord(a) = Ord(b)

FNeg(a) == IF IsNaN(a) THEN NaN ELSE <<a[1], -a[2]>>

FAdd(a, b) ==
    IF IsNaN(a) \/ IsNaN(b) THEN NaN
    ELSE IF IsInf(a) /\ IsInf(b) THEN (IF a[2] = b[2] THEN a ELSE NaN)
    ELSE IF IsInf(a) THEN a
    ELSE IF IsInf(b) THEN b
    ELSE F(a[2] + b[2])

FSub(a, b) == FAdd(a, FNeg(b))

FMul(a, b) ==
    IF IsNaN(a) \/ IsNaN(b) THEN NaN
    ELSE IF IsInf(a) \/ IsInf(b)
         THEN (IF FSign(a) * FSign(b) = 0 THEN NaN ELSE <<"inf", FSign(a) * FSign(b)>>)
    ELSE F(MulFix(a[2], b[2]))

FDiv(a, b) ==
    IF IsNaN(a) \/ IsNaN(b) THEN NaN
    ELSE IF IsInf(a) THEN (IF IsInf(b) THEN NaN
                           ELSE <<"inf", a[2] * (IF b[2] < 0 THEN -1 ELSE 1)>>)
    ELSE IF IsInf(b) THEN F(0)
    ELSE IF b[2] = 0 THEN (IF a[2] = 0 THEN NaN ELSE <<"inf", FSign(a)>>)
    ELSE F(DivFix(a[2], b[2]))

\* np.log
FLog(a) ==
    IF IsNaN(a) THEN NaN
    ELSE IF IsInf(a) THEN (IF a[2] > 0 THEN PInf ELSE NaN)
    ELSE IF a[2] > 0 THEN F(Ln(a[2]))
    ELSE IF a[2] = 0 THEN NInf
    ELSE NaN

\* np.exp
FExp(a) ==
    IF IsNaN(a) THEN NaN
    ELSE IF IsInf(a) THEN (IF a[2] > 0 THEN PInf ELSE F(0))
    ELSE F(Exp(a[2]))

\* scipy.special.gammaln on the arguments the program reaches (positive reals
\* and the poles 0, -1, -2, ..., where it is +inf)
gammaln(a) ==
    CASE IsNaN(a) -> NaN
      [] IsInf(a) -> PInf
      [] IsFin(a) /\ a[2] > 0 -> F(LGamma(a[2]))
      [] IsFin(a) /\ a[2] <= 0 /\ a[2] % Scale = 0 -> PInf
      \* log|Gamma(x)| of a negative non-integer, by the recurrence
      \* Gamma(x) = Gamma(x + m) / (x (x + 1) ... (x + m - 1))
      [] IsFin(a) /\ a[2] < 0 /\ a[2] % Scale # 0 ->
            LET m  == -(a[2] \div Scale)
                pr == Abs(RisingProd(a[2], m))
            IN  IF pr = 0 THEN PInf ELSE F(LGamma(a[2] + m * Scale) - Ln(pr))

\* scipy.special.betainc(a, b, x) for a, b > 0 and x in [0, 1]
betainc(a, b, x) ==
    IF IsNaN(a) \/ IsNaN(b) \/ IsNaN(x) THEN NaN
    ELSE IF ~(IsFin(a) /\ IsFin(b) /\ IsFin(x)) THEN NaN
    ELSE IF a[2] <= 0 \/ b[2] <= 0 \/ x[2] < 0 \/ x[2] > Scale THEN NaN
    ELSE IF x[2] = 0 THEN F(0)
    ELSE IF x[2] = Scale THEN F(Scale)
    ELSE F(BetaInc(a[2], b[2], x[2]))

\* Python's built-in max(a, b) and min(a, b): the first argument unless the
\* second compares greater (smaller)
PyMax(a, b) == IF FGt(b, a) THEN b ELSE a
PyMin(a, b) == IF FLt(b, a) THEN b ELSE a

\* ------------------------------------------------------------------------
\* Binomial distribution for real-valued k
\* ------------------------------------------------------------------------
binom_pmf(k, n, p) ==
    LET scale_log == FSub(FSub(gammaln(FAdd(n, N(1))),
                               gammaln(FAdd(FSub(n, k), N(1)))),
                          gammaln(FAdd(k, N(1))))
        ret_log == FAdd(FAdd(scale_log, FMul(k, FLog(p))),
                        FMul(FSub(n, k), FLog(FSub(N(1), p))))
    IN  FExp(ret_log)

\* complemented binomial distribution, P(X > k)
bdtrc(k, n, p) ==
    IF FLt(k, N(0)) THEN N(1)
    ELSE IF FEq(k, n) THEN N(0)
    ELSE LET dn == FSub(n, k)
         IN  IF FEq(k, N(0))
             THEN \* -expm1(dn*log1p(-p)) for p < .01, 1 - exp(dn*log(1-p)) otherwise
                  FSub(N(1), FExp(FMul(dn, FLog(FSub(N(1), p)))))
             ELSE betainc(FAdd(k, N(1)), dn, p)

\* binomial distribution, P(X <= k)
bdtr(k, n, p) ==
    IF FLt(k, N(0)) THEN NaN
    ELSE IF FEq(k, n) THEN N(1)
    ELSE LET dn == FSub(n, k)
         IN  IF FEq(k, N(0))
             THEN FExp(FMul(dn, FLog(FSub(N(1), p))))
             ELSE betainc(dn, FAdd(k, N(1)), FSub(N(1), p))

binom_cdf(k, n, p) == Eval("bdtr", k, n, p)

binom_sf(k, n, p) == Eval("bdtrc", k, n, p)

\* ------------------------------------------------------------------------
\* binom_test
\* ------------------------------------------------------------------------
\* np.round: to the nearest integer, halves to even
RoundHalfEven(v) ==
    LET q == v \div Scale
        r == v % Scale
    IN  IF 2 * r > Scale THEN q + 1
        ELSE IF 2 * r < Scale THEN q
        ELSE IF q % 2 = 0 THEN q ELSE q + 1

FRound(a) == IF IsFin(a) THEN N(RoundHalfEven(a[2])) ELSE a

FLog10(a) == FDiv(FLog(a), F(Ln10))

\* int(x) of a finite float: truncation towards zero
Trunc(v) == Sgn(v) * (Abs(v) \div Scale)

\* ceil of a finite float
CeilInt(v) == -((-v) \div Scale)

\* the relative tolerance rerr = 1 + 1e-7 applied to d: the product is rounded
\* up to the next representable value, so that d * rerr > d whenever d > 0,
\* as it is in double precision
TenMillion == 10 * Scale
MulRerr(d) ==
    IF IsFin(d) /\ d[2] > 0 THEN F(d[2] + ((d[2] + TenMillion - 1) \div TenMillion))
    ELSE d

\* n_iter = int(max(np.round(np.log10(n)) + 1, 2)); int() raises on NaN, inf
n_iter_float(n) == PyMax(FAdd(FRound(FLog10(n)), N(1)), N(2))

\* minimal number of sample points of the first two outer iterations
MinPts == 50 + 0

\* np.linspace(j_min, j_max, n_pts, endpoint=True)[i]
linspace(j_min, j_max, n_pts, i) ==
    IF n_pts = 1 THEN j_min
    ELSE IF i = n_pts - 1 THEN j_max
    ELSE LET w == j_max - j_min
             m == n_pts - 1
         IN  j_min + i * (w \div m) + ((i * (w % m)) \div m)

\* _check_(d, y0, y1) of the two search sides
check_up(d, y0, y1) == FGt(d, y1) /\ FLe(d, y0)

check_down(d, y0, y1) == FGe(d, y0) /\ FLt(d, y1)

\* _check_ as it would be if both search sides used the downward test
check_ignoring_side(upward, d, y0, y1) == check_down(d, y0, y1)

_check_(upward, d, y0, y1) ==
    IF upward THEN check_up(d, y0, y1) ELSE check_down(d, y0, y1)

\* y = binom_pmf(j_range, n, p) and the inner loop: the bracket becomes the
\* first adjacent pair of sample points that straddles d, or stays as it is.
\* last is the value the inner loop leaves in its index i: the index of the
\* pair it stopped at, the last index when it ran to its end, -1 when
\* range(len(j_range) - 1) is empty and i is not assigned
ScanPairs(upward, d, n, p, j_min, j_max, n_pts) ==
    LET j_range == [i \in 0..(n_pts - 1) |-> linspace(j_min, j_max, n_pts, i)] @@ << >>
        y       == [i \in 0..(n_pts - 1) |-> Eval("binom_pmf", F(j_range[i]), n, p)] @@ << >>
        hits    == {i \in 0..(n_pts - 2) : _check_(upward, d, y[i], y[i + 1])}
    IN  IF n_pts < 2
        THEN [updated |-> FALSE, j_min |-> j_min, j_max |-> j_max, last |-> -1]
        ELSE IF hits = {}
        THEN [updated |-> FALSE, j_min |-> j_min, j_max |-> j_max, last |-> n_pts - 2]
        ELSE LET i == CHOOSE h \in hits : \A g \in hits : h <= g
             IN  [updated |-> TRUE, j_min |-> j_range[i], j_max |-> j_range[i + 1],
                  last |-> i]

\* n_pts of outer iteration i
NPts(i, j_min, j_max) ==
    LET w == Trunc(j_max - j_min)
    IN  IF i < 2 /\ w < MinPts THEN MinPts ELSE w

\* outer loop: one record per outer iteration (the bracket after it)
RECURSIVE BracketSearch(_, _, _, _, _, _, _, _)

\* BracketStep as it would be if the outer loop went on from the value the
\* inner loop leaves in the shared name i (one counter for both loops)
BracketStepSharedIndex(upward, d, n, p, i, n_iter, n_pts, r) ==
    << [i |-> i, n_pts |-> n_pts, updated |-> r.updated, j_min |-> r.j_min,
        j_max |-> r.j_max, shadow |-> IF r.last < 0 THEN i ELSE r.last] >>
    \o BracketSearch(upward, d, n, p, r.j_min, r.j_max,
                     (IF r.last < 0 THEN i ELSE r.last) + 1, n_iter)

\* outer iteration i, given its n_pts and the bracket r that its scan leaves.
\* shadow is the value of the name i after the inner loop, which reuses it;
\* the outer for statement then rebinds i to the next item of range(n_iter)
BracketStep(upward, d, n, p, i, n_iter, n_pts, r) ==
    << [i |-> i, n_pts |-> n_pts, updated |-> r.updated, j_min |-> r.j_min,
        j_max |-> r.j_max, shadow |-> IF r.last < 0 THEN i ELSE r.last] >>
    \o BracketSearch(upward, d, n, p, r.j_min, r.j_max, i + 1, n_iter)

BracketSearch(upward, d, n, p, j_min, j_max, i, n_iter) ==
    IF i >= n_iter THEN << >>
    ELSE BracketStep(upward, d, n, p, i, n_iter, NPts(i, j_min, j_max),
                     ScanPairs(upward, d, n, p, j_min, j_max, NPts(i, j_min, j_max)))

\* for n_ in np.arange(n, 2*n, 1): the first offset i whose density at n + i is
\* below d, or cnt when there is none
RECURSIVE FirstBelow(_, _, _, _, _)
FirstBelow(n, p, d, i, cnt) ==
    IF i >= cnt THEN cnt
    ELSE IF FLt(Eval("binom_pmf", FAdd(n, N(i)), n, p), d) THEN i
    ELSE FirstBelow(n, p, d, i + 1, cnt)

Raised == [raised |-> TRUE, pval |-> NaN, d |-> NaN, upward |-> FALSE, do_test |-> FALSE,
           degenerate |-> FALSE, n_iter |-> 0, start |-> <<0, 0>>, hist |-> << >>, j |-> NaN]

\* BinomTail as it would be if the lower tail were added whatever k * j is
BinomTailTwoSided(k, n, p, d, upward, n_iter, j_min, j_max, hist) ==
    LET lo == IF hist = << >> THEN j_min ELSE hist[Len(hist)].j_min
        hi == IF hist = << >> THEN j_max ELSE hist[Len(hist)].j_max
        j  == PyMax(PyMin(F((lo + hi) \div 2), n), N(0))
        pv == FAdd(binom_cdf(PyMin(k, j), n, p), binom_sf(PyMax(k, j), n, p))
    IN  [raised |-> FALSE, pval |-> PyMin(N(1), pv), d |-> d, upward |-> upward,
         do_test |-> TRUE, degenerate |-> FALSE, n_iter |-> n_iter,
         start |-> <<j_min, j_max>>, hist |-> hist, j |-> j]

\* the end of binom_test: the mirror point j in the middle of the bracket that
\* the search (hist) left, and the two tails
BinomTail(k, n, p, d, upward, n_iter, j_min, j_max, hist) ==
    LET lo == IF hist = << >> THEN j_min ELSE hist[Len(hist)].j_min
        hi == IF hist = << >> THEN j_max ELSE hist[Len(hist)].j_max
        j  == PyMax(PyMin(F((lo + hi) \div 2), n), N(0))
        pv == IF FEq(FMul(k, j), N(0))
              THEN binom_sf(PyMax(k, j), n, p)
              ELSE FAdd(binom_cdf(PyMin(k, j), n, p), binom_sf(PyMax(k, j), n, p))
    IN  [raised |-> FALSE, pval |-> PyMin(N(1), pv), d |-> d, upward |-> upward,
         do_test |-> TRUE, degenerate |-> FALSE, n_iter |-> n_iter,
         start |-> <<j_min, j_max>>, hist |-> hist, j |-> j]

\* BinomBracket as it would be if the early return read "if not do_test": a
\* target density of 0 is searched and integrated like any other
BinomBracketSearchZero(k, n, p, d, nf, upward, above, cnt, off) ==
    LET unbound == upward /\ above /\ cnt <= 0
        do_test == ~(upward /\ above /\ off >= cnt)
        n_iter  == IF ~upward /\ above THEN 0 ELSE Trunc(nf[2])
        j_min   == IF upward THEN k[2] ELSE 0
        j_max   == IF upward THEN (IF above THEN n[2] + off * Scale ELSE n[2])
                   ELSE (IF above THEN 0 ELSE k[2])
    IN  IF unbound THEN Raised
        ELSE IF ~do_test
        THEN [raised |-> FALSE, pval |-> N(0), d |-> d, upward |-> upward,
              do_test |-> do_test, degenerate |-> TRUE, n_iter |-> n_iter,
              start |-> <<j_min, j_max>>, hist |-> << >>, j |-> NaN]
        ELSE BinomTail(k, n, p, d, upward, n_iter, j_min, j_max,
                       BracketSearch(upward, d, n, p, j_min, j_max, 0, n_iter))

\* BinomBracket as it would be if the early return gave NaN, not 0.0
BinomBracketNaNOnDegenerate(k, n, p, d, nf, upward, above, cnt, off) ==
    LET unbound == upward /\ above /\ cnt <= 0
        do_test == ~(upward /\ above /\ off >= cnt)
        n_iter  == IF ~upward /\ above THEN 0 ELSE Trunc(nf[2])
        j_min   == IF upward THEN k[2] ELSE 0
        j_max   == IF upward THEN (IF above THEN n[2] + off * Scale ELSE n[2])
                   ELSE (IF above THEN 0 ELSE k[2])
    IN  IF unbound THEN Raised
        ELSE IF FEq(d, N(0)) \/ ~do_test
        THEN [raised |-> FALSE, pval |-> NaN, d |-> d, upward |-> upward,
              do_test |-> do_test, degenerate |-> TRUE, n_iter |-> n_iter,
              start |-> <<j_min, j_max>>, hist |-> << >>, j |-> NaN]
        ELSE BinomTail(k, n, p, d, upward, n_iter, j_min, j_max,
                       BracketSearch(upward, d, n, p, j_min, j_max, 0, n_iter))

\* binom_test from the initial bracket on: above is the outcome of the
\* density test at the far end (n upwards, 0 downwards), off the offset of the
\* first n_ of np.arange(n, 2*n, 1) with a density below d (cnt: none)
BinomBracket(k, n, p, d, nf, upward, above, cnt, off) ==
    LET \* an empty arange leaves do_test unbound
        unbound == upward /\ above /\ cnt <= 0
        do_test == ~(upward /\ above /\ off >= cnt)
        n_iter  == IF ~upward /\ above THEN 0 ELSE Trunc(nf[2])
        j_min   == IF upward THEN k[2] ELSE 0
        j_max   == IF upward THEN (IF above THEN n[2] + off * Scale ELSE n[2])
                   ELSE (IF above THEN 0 ELSE k[2])
    IN  IF unbound THEN Raised
        ELSE IF FEq(d, N(0)) \/ ~do_test
        THEN [raised |-> FALSE, pval |-> N(0), d |-> d, upward |-> upward,
              do_test |-> do_test, degenerate |-> TRUE, n_iter |-> n_iter,
              start |-> <<j_min, j_max>>, hist |-> << >>, j |-> NaN]
        ELSE BinomTail(k, n, p, d, upward, n_iter, j_min, j_max,
                       BracketSearch(upward, d, n, p, j_min, j_max, 0, n_iter))

\* binom_test once d and n_iter are known.  raised: the call ends in an
\* exception, which int() throws on a NaN or an infinity: in n_iter for a
\* non-finite n, and in n_pts = int(j_max - j_min) for a non-finite k (d is NaN
\* then, so neither early return applies and k is an end of the bracket)
BinomSide(k, n, p, d, nf, upward, above) ==
    IF ~IsFin(nf) THEN Raised
    ELSE IF ~IsFin(k) THEN Raised
    ELSE BinomBracket(k, n, p, d, nf, upward, above, CeilInt(n[2]),
                      IF upward /\ above THEN FirstBelow(n, p, d, 0, CeilInt(n[2])) ELSE 0)

BinomFrom(k, n, p, d, nf) ==
    BinomSide(k, n, p, d, nf, FLt(k, FMul(n, p)),
              IF FLt(k, FMul(n, p)) THEN FGt(Eval("binom_pmf", n, n, p), d)
              ELSE FGt(Eval("binom_pmf", N(0), n, p), d))

\* binom_test(k, n, p); the record keeps the intermediate values of the run
\* next to the returned pval
binom_test(k, n, p) == BinomFrom(k, n, p, MulRerr(Eval("binom_pmf", k, n, p)), n_iter_float(n))

\* ------------------------------------------------------------------------
\* neg2llh_modpoisson
\* ------------------------------------------------------------------------
\* scipy.special.loggamma of a real argument: NaN on the negative axis
loggamma(a) ==
    IF IsNaN(a) THEN NaN
    ELSE IF IsInf(a) THEN (IF a[2] > 0 THEN PInf ELSE NaN)
    ELSE IF a[2] > 0 THEN F(LGamma(a[2]))
    ELSE IF a[2] = 0 THEN PInf
    ELSE NaN

\* neg2llh_modpoisson as it would be without its last assignment
\* res[is_zero*neg_mu] = 0.0
neg2llh_without_neg_mu(mu, areas, mean_pe_photon) ==
    LET D       == DOMAIN mu
        res     == [c \in D |->
                      LET q == FDiv(areas[c], mean_pe_photon)
                      IN  FMul(N(2), FAdd(FAdd(FSub(mu[c], FMul(q, FLog(mu[c]))),
                                               loggamma(FAdd(q, N(1)))),
                                          FLog(mean_pe_photon)))]
        is_zero == [c \in D |-> ~FGt(areas[c], N(0))]
    IN  [c \in D |-> IF is_zero[c] THEN FMul(N(2), mu[c]) ELSE res[c]] @@ << >>

\* neg2llh_modpoisson as it would be if every channel without a positive area
\* were assigned 0.0
neg2llh_zero_is_free(mu, areas, mean_pe_photon) ==
    LET D       == DOMAIN mu
        res     == [c \in D |->
                      LET q == FDiv(areas[c], mean_pe_photon)
                      IN  FMul(N(2), FAdd(FAdd(FSub(mu[c], FMul(q, FLog(mu[c]))),
                                               loggamma(FAdd(q, N(1)))),
                                          FLog(mean_pe_photon)))]
        is_zero == [c \in D |-> ~FGt(areas[c], N(0))]
    IN  [c \in D |-> IF is_zero[c] THEN N(0) ELSE res[c]] @@ << >>

\* neg2llh_modpoisson as it would be if the second assignment read
\* res[neg_mu] = 0.0, independently of is_zero
neg2llh_neg_mu_anywhere(mu, areas, mean_pe_photon) ==
    LET D       == DOMAIN mu
        res     == [c \in D |->
                      LET q == FDiv(areas[c], mean_pe_photon)
                      IN  FMul(N(2), FAdd(FAdd(FSub(mu[c], FMul(q, FLog(mu[c]))),
                                               loggamma(FAdd(q, N(1)))),
                                          FLog(mean_pe_photon)))]
        is_zero == [c \in D |-> ~FGt(areas[c], N(0))]
        res_z   == [c \in D |-> IF is_zero[c] THEN FMul(N(2), mu[c]) ELSE res[c]]
        neg_mu  == [c \in D |-> FLt(mu[c], N(0))]
    IN  [c \in D |-> IF neg_mu[c] THEN N(0) ELSE res_z[c]] @@ << >>

\* mu, areas: arrays over the same channels (functions with one domain); the
\* result is the array res after the two masked assignments
neg2llh_modpoisson(mu, areas, mean_pe_photon) ==
    LET D       == DOMAIN mu
        res     == [c \in D |->
                      LET q == FDiv(areas[c], mean_pe_photon)
                      IN  FMul(N(2), FAdd(FAdd(FSub(mu[c], FMul(q, FLog(mu[c]))),
                                               loggamma(FAdd(q, N(1)))),
                                          FLog(mean_pe_photon)))]
        is_zero == [c \in D |-> ~FGt(areas[c], N(0))]
        res_z   == [c \in D |-> IF is_zero[c] THEN FMul(N(2), mu[c]) ELSE res[c]]
        neg_mu  == [c \in D |-> FLt(mu[c], N(0))]
    IN  [c \in D |-> IF is_zero[c] /\ neg_mu[c] THEN N(0) ELSE res_z[c]] @@ << >>

\* the evaluator of the numerical functions
Eval(f, a, b, c) ==
    CASE f = "Ln" -> LnReduce(a)
      [] f = "Exp" -> ExpScale(a)
      [] f = "LGamma" -> LGammaShift(a)
      [] f = "BetaInc" -> BetaSwitch(a, b, c)
      [] f = "binom_pmf" -> binom_pmf(a, b, c)
      [] f = "bdtr" -> bdtr(a, b, c)
      [] f = "bdtrc" -> bdtrc(a, b, c)
      [] f = "binom_test" -> binom_test(a, b, c)
      [] f = "neg2llh_modpoisson" -> neg2llh_modpoisson(a, b, c)

\* ------------------------------------------------------------------------
\* EventPatternFit: configuration and setup
\* ------------------------------------------------------------------------
\* the options of the plugin; channels are numbered from 1, the first
\* n_top_pmts of them are the top array
n_tpc_pmts == 4
n_top_pmts == 2
s1_min_area_pattern_fit == 3
s2_min_area_pattern_fit == 10
max_r_pattern_fit == 4
mean_pe_per_photon == F((12 * Scale) \div 10)
store_per_channel == TRUE

\* the gains of the gain model: a channel with gain 0 is a dead PMT
to_pe == <<1, 1, 1, 0>>

mean_pe_photon == mean_pe_per_photon

dead_PMTs == {c \in 1..n_tpc_pmts : to_pe[c] = 0}

\* the usable channels: of the whole detector, of the top and of the bottom array
pmtbool == {c \in 1..n_tpc_pmts : c \notin dead_PMTs}

pmtbool_top == {c \in pmtbool : c <= n_top_pmts}

pmtbool_bottom == {c \in pmtbool : c > n_top_pmts}

\* np.sum over the channels S of the array f, in channel order
RECURSIVE SumCh(_, _)
SumCh(f, S) ==
    IF S = {} THEN N(0)
    ELSE LET c == CHOOSE m \in S : \A o \in S : o <= m
         IN  FAdd(SumCh(f, S \ {c}), f[c])

\* ------------------------------------------------------------------------
\* likelihood values of the S1 and of the two S2 hypotheses
\* ------------------------------------------------------------------------
\* ExpectedPattern as it would be if it were normalised by the sum of the
\* efficiencies of all channels, the dead ones included
ExpectedPatternAllChannels(total, effs, S) ==
    LET s == SumCh(effs, DOMAIN effs)
    IN  [c \in S |-> FDiv(FMul(total, effs[c]), s)] @@ << >>

\* total * effs / sum(effs) over the usable channels S
ExpectedPattern(total, effs, S) ==
    LET s == SumCh(effs, S)
    IN  [c \in S |-> FDiv(FMul(total, effs[c]), s)] @@ << >>

\* NormLlh as it would be if the saturated term took the areas themselves for
\* its expectation, not the areas over mean_pe_photon
NormLlhUnscaled(pattern, area_per_channel, S) ==
    LET areas == [c \in S |-> area_per_channel[c]] @@ << >>
        arg1  == [c \in S |-> FDiv(pattern[c], mean_pe_photon)] @@ << >>
        r1    == Eval("neg2llh_modpoisson", arg1, areas, mean_pe_photon)
        r2    == Eval("neg2llh_modpoisson", areas, areas, mean_pe_photon)
    IN  [c \in S |-> FSub(r1[c], r2[c])] @@ << >>

\* norm_llh_val: neg2llh_modpoisson of the pattern minus that of the observed
\* areas, per usable channel
NormLlh(pattern, area_per_channel, S) ==
    LET areas == [c \in S |-> area_per_channel[c]] @@ << >>
        arg1  == [c \in S |-> FDiv(pattern[c], mean_pe_photon)] @@ << >>
        arg2  == [c \in S |-> FDiv(areas[c], mean_pe_photon)] @@ << >>
        r1    == Eval("neg2llh_modpoisson", arg1, areas, mean_pe_photon)
        r2    == Eval("neg2llh_modpoisson", arg2, areas, mean_pe_photon)
    IN  [c \in S |-> FSub(r1[c], r2[c])] @@ << >>

\* store_patterns / store_2LLH_ch: an array of zeros over the channels 1..n,
\* overwritten at the usable channels
StoreCh(vals, n) == [c \in 1..n |-> IF c \in DOMAIN vals THEN vals[c] ELSE N(0)]

Zeros(n) == [c \in 1..n |-> N(0)]

\* cur_s1_bool as it would be without the test of s1_index
cur_s1_bool_any_index(e) ==
    /\ FGt(e.s1_area, N(s1_min_area_pattern_fit))
    /\ FGe(e.s1_area_fraction_top, N(0))
    /\ isfinite(e.x)
    /\ isfinite(e.y)
    /\ isfinite(e.z)
    /\ FLt(FAdd(FMul(e.x, e.x), FMul(e.y, e.y)), N(max_r_pattern_fit * max_r_pattern_fit))

\* the selection of compute_s1_llhvalue
cur_s1_bool(e) ==
    /\ FGt(e.s1_area, N(s1_min_area_pattern_fit))
    /\ e.s1_index # -1
    /\ FGe(e.s1_area_fraction_top, N(0))
    /\ isfinite(e.x)
    /\ isfinite(e.y)
    /\ isfinite(e.z)
    /\ FLt(FAdd(FMul(e.x, e.x), FMul(e.y, e.y)), N(max_r_pattern_fit * max_r_pattern_fit))

\* the row of event e after compute_s1_llhvalue
compute_s1_llhvalue(e) ==
    IF ~cur_s1_bool(e)
    THEN [s1_2llh |-> NaN, s1_top_2llh |-> NaN, s1_bottom_2llh |-> NaN,
          s1_pattern |-> Zeros(n_tpc_pmts), s1_2llh_per_channel |-> Zeros(n_tpc_pmts)]
    ELSE
    LET s1_map_effs       == e.s1_map_effs
        s1_area           == e.s1_area
        s1_pattern        == ExpectedPattern(s1_area, s1_map_effs, pmtbool)
        s1_pattern_top    == ExpectedPattern(FMul(e.s1_area_fraction_top, s1_area),
                                             s1_map_effs, pmtbool_top)
        s1_pattern_bottom == ExpectedPattern(FMul(FSub(N(1), e.s1_area_fraction_top), s1_area),
                                             s1_map_effs, pmtbool_bottom)
        norm_llh_val      == NormLlh(s1_pattern, e.s1_area_per_channel, pmtbool)
        norm_top          == NormLlh(s1_pattern_top, e.s1_area_per_channel, pmtbool_top)
        norm_bottom       == NormLlh(s1_pattern_bottom, e.s1_area_per_channel, pmtbool_bottom)
    IN  [s1_2llh        |-> SumCh(norm_llh_val, pmtbool),
         s1_top_2llh    |-> SumCh(norm_top, pmtbool_top),
         s1_bottom_2llh |-> SumCh(norm_bottom, pmtbool_bottom),
         s1_pattern     |-> IF store_per_channel THEN StoreCh(s1_pattern, n_tpc_pmts)
                            ELSE Zeros(n_tpc_pmts),
         s1_2llh_per_channel |-> IF store_per_channel THEN StoreCh(norm_llh_val, n_tpc_pmts)
                                 ELSE Zeros(n_tpc_pmts)]

\* the selection of compute_s2_llhvalue for t_ in {"s2", "alt_s2"}
cur_s2_bool(e, t_) ==
    LET x == e[t_ \o "_x"]
        y == e[t_ \o "_y"]
    IN  /\ FGt(e[t_ \o "_area"], N(s2_min_area_pattern_fit))
        /\ e[t_ \o "_index"] # -1
        /\ FGt(e[t_ \o "_area_fraction_top"], N(0))
        /\ FLt(FAdd(FMul(x, x), FMul(y, y)), N(max_r_pattern_fit * max_r_pattern_fit))

\* the fields of event e's row that one pass of the loop of
\* compute_s2_llhvalue writes
compute_s2_llhvalue(e, t_) ==
    IF ~cur_s2_bool(e, t_)
    THEN ((t_ \o "_2llh") :> NaN) @@ ((t_ \o "_pattern") :> Zeros(n_top_pmts))
         @@ ((t_ \o "_2llh_per_channel") :> Zeros(n_top_pmts))
    ELSE
    LET s2_map_effs  == e[t_ \o "_map_effs"]
        s2_top_area  == FMul(e[t_ \o "_area_fraction_top"], e[t_ \o "_area"])
        s2_pattern   == ExpectedPattern(s2_top_area, s2_map_effs, pmtbool_top)
        norm_llh_val == NormLlh(s2_pattern, e[t_ \o "_area_per_channel"], pmtbool_top)
    IN  ((t_ \o "_2llh") :> SumCh(norm_llh_val, pmtbool_top))
        @@ ((t_ \o "_pattern") :> IF store_per_channel THEN StoreCh(s2_pattern, n_top_pmts)
                                  ELSE Zeros(n_top_pmts))
        @@ ((t_ \o "_2llh_per_channel") :>
                IF store_per_channel THEN StoreCh(norm_llh_val, n_top_pmts)
                ELSE Zeros(n_top_pmts))

\* ------------------------------------------------------------------------
\* the probabilities of the S1 area fraction top
\* ------------------------------------------------------------------------
\* what the wrapper returns from the run t of binom_test
TestOutcome(t) == [binomial_test |-> t.pval, tested |-> TRUE, raised |-> t.raised]

\* the wrapper as it would be without the test area_top < 0
probability_without_sign_test(aft_prob, area_tot, area_fraction_top, mode) ==
    LET area_top == FMul(area_tot, area_fraction_top)
        do_test  == /\ ~FLt(area_tot, area_top)
                    /\ ~(FGt(aft_prob, N(1)) \/ FLt(aft_prob, N(0)))
    IN  IF ~do_test
        THEN [binomial_test |-> NaN, tested |-> FALSE, raised |-> FALSE]
        ELSE IF mode = "discrete"
        THEN [binomial_test |-> Eval("binom_pmf", area_top, area_tot, aft_prob),
              tested |-> TRUE, raised |-> FALSE]
        ELSE TestOutcome(Eval("binom_test", area_top, area_tot, aft_prob))

\* _s1_area_fraction_top_probability: binomial_test is the returned value,
\* tested says whether binom_test or binom_pmf was evaluated, raised whether
\* the call ended in an exception
_s1_area_fraction_top_probability(aft_prob, area_tot, area_fraction_top, mode) ==
    LET area_top == FMul(area_tot, area_fraction_top)
        do_test  == /\ ~FLt(area_tot, area_top)
                    /\ ~(FGt(aft_prob, N(1)) \/ FLt(aft_prob, N(0)))
                    /\ ~FLt(area_top, N(0))
    IN  IF ~do_test
        THEN [binomial_test |-> NaN, tested |-> FALSE, raised |-> FALSE]
        ELSE IF mode = "discrete"
        THEN [binomial_test |-> Eval("binom_pmf", area_top, area_tot, aft_prob),
              tested |-> TRUE, raised |-> FALSE]
        ELSE TestOutcome(Eval("binom_test", area_top, area_tot, aft_prob))

\* the S1 hypotheses and, in the order compute fills them, the four outputs
\* of each: the name of the output, whether the area is scaled to photons,
\* and the mode of the test
S1Hyps == <<"s1", "alt_s1">>

ProbOutputs ==
    << [name |-> "_area_fraction_top_continuous_probability", photon |-> FALSE,
        mode |-> "continuous"],
       [name |-> "_area_fraction_top_discrete_probability", photon |-> FALSE,
        mode |-> "discrete"],
       [name |-> "_photon_fraction_top_continuous_probability", photon |-> TRUE,
        mode |-> "continuous"],
       [name |-> "_photon_fraction_top_discrete_probability", photon |-> TRUE,
        mode |-> "discrete"] >>

\* mask_s1 and mask_alt_s1
mask_s1(e, h) ==
    /\ ~IsNaN(e.aft_prob)
    /\ ~IsNaN(e[h \o "_area"])
    /\ ~IsNaN(e[h \o "_area_fraction_top"])

\* the arguments arg of one vectorized call, for event e
ProbArg(e, h, o) ==
    [aft_prob |-> e.aft_prob,
     area_tot |-> IF ProbOutputs[o].photon THEN FDiv(e[h \o "_area"], mean_pe_per_photon)
                  ELSE e[h \o "_area"],
     area_fraction_top |-> e[h \o "_area_fraction_top"]]

\* the calls of the wrapper in the order compute makes them: hypothesis by
\* hypothesis, output by output, event by event; slot s is call number s
NSlots(events) == Len(S1Hyps) * Len(ProbOutputs) * Len(events)

SlotHyp(events, s) == ((s - 1) \div (Len(ProbOutputs) * Len(events))) + 1

SlotOut(events, s) == (((s - 1) \div Len(events)) % Len(ProbOutputs)) + 1

SlotEvent(events, s) == ((s - 1) % Len(events)) + 1

SlotOf(events, hi, o, i) == ((hi - 1) * Len(ProbOutputs) + (o - 1)) * Len(events) + i

NotCalled == [binomial_test |-> NaN, tested |-> FALSE, raised |-> FALSE]

ProbCalls(events) ==
    [s \in 1..NSlots(events) |->
        LET e == events[SlotEvent(events, s)]
            h == S1Hyps[SlotHyp(events, s)]
            o == SlotOut(events, s)
            a == ProbArg(e, h, o)
        IN  IF mask_s1(e, h)
            THEN _s1_area_fraction_top_probability(a.aft_prob, a.area_tot,
                                                   a.area_fraction_top, ProbOutputs[o].mode)
            ELSE NotCalled]

\* ------------------------------------------------------------------------
\* compute
\* ------------------------------------------------------------------------
\* the eight probability fields of event i
ProbFields(events, calls, i) ==
    LET f == [p \in (1..Len(S1Hyps)) \X (1..Len(ProbOutputs)) |->
                 calls[SlotOf(events, p[1], p[2], i)].binomial_test]
    IN  [s1_area_fraction_top_continuous_probability       |-> f[<<1, 1>>],
         s1_area_fraction_top_discrete_probability         |-> f[<<1, 2>>],
         s1_photon_fraction_top_continuous_probability     |-> f[<<1, 3>>],
         s1_photon_fraction_top_discrete_probability       |-> f[<<1, 4>>],
         alt_s1_area_fraction_top_continuous_probability   |-> f[<<2, 1>>],
         alt_s1_area_fraction_top_discrete_probability     |-> f[<<2, 2>>],
         alt_s1_photon_fraction_top_continuous_probability |-> f[<<2, 3>>],
         alt_s1_photon_fraction_top_discrete_probability   |-> f[<<2, 4>>]]

\* compute(events) given the outcomes of the calls of the wrapper: returned
\* says that the call returned (it did not end in an exception), rows is the
\* returned array, tested the calls of the wrapper that evaluated binom_test or
\* binom_pmf before the call ended, raised_at the call that raised (0: none)
ComputeRows(events, calls) ==
    LET raising   == {s \in 1..NSlots(events) : calls[s].raised}
        raised_at == IF raising = {} THEN 0
                     ELSE CHOOSE s \in raising : \A o \in raising : s <= o
        made      == IF raised_at = 0 THEN 1..NSlots(events) ELSE 1..raised_at
    IN  [returned  |-> raised_at = 0,
         raised_at |-> raised_at,
         tested    |-> {s \in made : calls[s].tested},
         rows      |-> IF raised_at # 0 THEN << >>
                       ELSE [i \in 1..Len(events) |->
                               [time |-> events[i].time]
                               @@ compute_s1_llhvalue(events[i])
                               @@ compute_s2_llhvalue(events[i], "s2")
                               @@ compute_s2_llhvalue(events[i], "alt_s2")
                               @@ ProbFields(events, calls, i)]]

compute(events) == ComputeRows(events, ProbCalls(events) @@ << >>)

\* ------------------------------------------------------------------------
\* the batches of events handed to compute
\* ------------------------------------------------------------------------
Half == Scale \div 2

Fifth == Scale \div 5

\* an event whose three fits match the data: the observed areas are the
\* expected patterns, channel 2 sees nothing and channel 4 is the dead PMT
MatchEvent ==
    [time |-> 1,
     s1_area |-> N(4), s1_index |-> 0, s1_area_fraction_top |-> F(Half),
     x |-> N(0), y |-> N(0), z |-> N(-1),
     s1_area_per_channel |-> <<N(2), N(0), N(2), N(1)>>,
     s1_map_effs |-> <<N(1), N(0), N(1), N(1)>>,
     alt_s1_area |-> N(4), alt_s1_area_fraction_top |-> N(1),
     aft_prob |-> F(Fifth),
     s2_area |-> N(12), s2_index |-> 1, s2_area_fraction_top |-> F(Half),
     s2_x |-> N(1), s2_y |-> N(0),
     s2_area_per_channel |-> <<N(2), N(4), N(3), N(3)>>,
     s2_map_effs |-> <<N(1), N(2)>>,
     alt_s2_area |-> N(12), alt_s2_index |-> 2, alt_s2_area_fraction_top |-> F(Half),
     alt_s2_x |-> N(0), alt_s2_y |-> N(1),
     alt_s2_area_per_channel |-> <<N(1), N(1), N(5), N(5)>>,
     alt_s2_map_effs |-> <<N(1), N(1)>>]

\* an event with a top fraction above 1: the bottom pattern and the observed
\* bottom area are negative
NegEvent ==
    [MatchEvent EXCEPT !.time = 2,
                       !.s1_area_fraction_top = F(3 * Half),
                       !.s1_area_per_channel = <<N(6), N(0), N(-2), N(0)>>,
                       !.alt_s1_area_fraction_top = F(Half)]

\* an event in which no peak was found
EmptyEvent ==
    [time |-> 3,
     s1_area |-> NaN, s1_index |-> -1, s1_area_fraction_top |-> NaN,
     x |-> NaN, y |-> NaN, z |-> NaN,
     s1_area_per_channel |-> <<N(0), N(0), N(0), N(0)>>,
     s1_map_effs |-> <<NaN, NaN, NaN, NaN>>,
     alt_s1_area |-> NaN, alt_s1_area_fraction_top |-> NaN,
     aft_prob |-> NaN,
     s2_area |-> NaN, s2_index |-> -1, s2_area_fraction_top |-> NaN,
     s2_x |-> NaN, s2_y |-> NaN,
     s2_area_per_channel |-> <<N(0), N(0), N(0), N(0)>>,
     s2_map_effs |-> <<NaN, NaN>>,
     alt_s2_area |-> NaN, alt_s2_index |-> -1, alt_s2_area_fraction_top |-> NaN,
     alt_s2_x |-> NaN, alt_s2_y |-> NaN,
     alt_s2_area_per_channel |-> <<N(0), N(0), N(0), N(0)>>,
     alt_s2_map_effs |-> <<NaN, NaN>>]

BaseEvents == {MatchEvent, NegEvent, EmptyEvent}

\* the largest batch
MaxEvents == 2

\* the values a field of an event is replaced by
AreaVals == {NaN, PInf, NInf, N(-1), N(0), N(s1_min_area_pattern_fit),
             N(s2_min_area_pattern_fit)}

FractionVals == {NaN, PInf, NInf, N(-1), N(0), N(1), N(2)}

PositionVals == {NaN, PInf, NInf, N(max_r_pattern_fit), N(max_r_pattern_fit + 1)}

ChannelVals == {NaN, N(-1), N(0), N(1)}

EffVals == {NaN, N(0), N(1)}

ProbVals == {NaN, PInf, NInf, N(-1), N(0), F(Half), N(1), N(2)}

IndexVals == {-1, 0}

ScalarFields ==
    {"s1_area", "alt_s1_area", "s2_area", "alt_s2_area",
     "s1_area_fraction_top", "alt_s1_area_fraction_top",
     "s2_area_fraction_top", "alt_s2_area_fraction_top",
     "x", "y", "z", "s2_x", "s2_y", "alt_s2_x", "alt_s2_y",
     "s1_index", "s2_index", "alt_s2_index", "aft_prob"}

ArrayFields ==
    {"s1_area_per_channel", "s2_area_per_channel", "alt_s2_area_per_channel",
     "s1_map_effs", "s2_map_effs", "alt_s2_map_effs"}

FieldVals(f) ==
    IF f \in {"s1_area", "alt_s1_area", "s2_area", "alt_s2_area"} THEN AreaVals
    ELSE IF f \in {"s1_area_fraction_top", "alt_s1_area_fraction_top",
                   "s2_area_fraction_top", "alt_s2_area_fraction_top"} THEN FractionVals
    ELSE IF f \in {"x", "y", "z", "s2_x", "s2_y", "alt_s2_x", "alt_s2_y"} THEN PositionVals
    ELSE IF f \in {"s1_index", "s2_index", "alt_s2_index"} THEN IndexVals
    ELSE IF f = "aft_prob" THEN ProbVals
    ELSE IF f \in {"s1_area_per_channel", "s2_area_per_channel",
                   "alt_s2_area_per_channel"} THEN ChannelVals
    ELSE EffVals

\* the batches of base events
BaseBatches == UNION {[1..n -> BaseEvents] : n \in 1..MaxEvents}

\* the batches that differ from batch b in one scalar field of one event
ScalarVariants(b) ==
    UNION {UNION {{[b EXCEPT ![i][f] = v] : v \in FieldVals(f)} : f \in ScalarFields} :
           i \in DOMAIN b}

\* the batches that differ from batch b in one channel of one array of one event
ArrayVariants(b) ==
    UNION {UNION {UNION {{[b EXCEPT ![i][f][c] = v] : v \in FieldVals(f)} :
                         c \in DOMAIN b[i][f]} : f \in ArrayFields} :
           i \in DOMAIN b}

Batches == UNION {{b} \cup ScalarVariants(b) \cup ArrayVariants(b) : b \in BaseBatches}

\* the batches of one event whose S1 area, S1 top fraction and map probability
\* are drawn from the values below; the alternative S1 was not found
ProbAreaVals == {NaN, PInf, N(-1), N(0), N(1), N(2), N(3), F((48 * Scale) \div 10), N(6)}

ProbFractionVals == {NaN, N(-1), N(0), F(Scale \div 4), F(Half), N(1), N(2)}

ProbMapVals == {NaN, N(-1), N(0), F(3 * (Scale \div 10)), F(Half), F(7 * (Scale \div 10)),
                N(1), N(2)}

ProbBatches ==
    {<< [MatchEvent EXCEPT !.s1_area = a, !.s1_area_fraction_top = f, !.aft_prob = p,
                           !.alt_s1_area = NaN, !.alt_s1_area_fraction_top = NaN] >> :
        a \in ProbAreaVals, f \in ProbFractionVals, p \in ProbMapVals}

\* the inputs of the calls of neg2llh_modpoisson
VecLen == 2

MuVals == {NaN, N(-2), N(0), F(Half), N(3)}

ObsVals == {NaN, N(-2), N(0), F(Half), N(3)}

PeVals == {N(1), mean_pe_per_photon}

\* the inputs of the calls of binom_test: n in 0..MaxN, k in 0..n and p in Probs
MaxN == 7

Probs == {N(0), F(3 * (Scale \div 10)), F(Half), F(7 * (Scale \div 10)), N(1)}

\* the inputs of the calls of binom_test with three outer iterations:
\* n in {MaxIterN - 1, MaxIterN}, k in 0..n and p in Probs
MaxIterN == 33

\* ------------------------------------------------------------------------
\* the state machine
\* ------------------------------------------------------------------------
\* events:     the batch compute is called on
\* result:     what compute returned, once it was called
\* modpoisson: one call of neg2llh_modpoisson, its arguments and its result
\* binom:      the calls of binom_test for one n and p: runs[k + 1] is the run
\*             of binom_test(k, n, p), refl[k + 1] that of binom_test(n - k, n, 1 - p)
\* nveto:      one call of _merge_intervals, or one pass of rr_in_interval over
\*             its records
VARIABLES events, result, modpoisson, binom, nveto

vars == <<events, result, modpoisson, binom, nveto>>

NoResult == [done |-> FALSE, returned |-> FALSE, raised_at |-> 0, tested |-> {},
             rows |-> << >>]

NoModPoisson == [mu |-> << >>, areas |-> << >>, mean_pe_photon |-> N(1), res |-> << >>,
                 called |-> FALSE]

NoBinom == [n |-> N(0), p |-> N(0), runs |-> << >>, refl |-> << >>]

NoVeto == [called |-> FALSE]

\* EventPatternFit.compute on a batch
Init ==
    /\ events \in Batches
    /\ result = NoResult
    /\ modpoisson = NoModPoisson
    /\ binom = NoBinom
    /\ nveto = NoVeto

Compute ==
    /\ ~result.done
    /\ result' = [done |-> TRUE] @@ compute(events)
    /\ UNCHANGED <<events, modpoisson, binom, nveto>>

Next == Compute

Spec == Init /\ [][Next]_vars

\* EventPatternFit.compute on a batch of one event, for the probabilities of
\* the S1 area fraction top
InitProb ==
    /\ events \in ProbBatches
    /\ result = NoResult
    /\ modpoisson = NoModPoisson
    /\ binom = NoBinom
    /\ nveto = NoVeto

SpecProb == InitProb /\ [][Next]_vars

\* neg2llh_modpoisson on arrays of VecLen channels
InitModPoisson ==
    /\ events = << >>
    /\ result = NoResult
    /\ modpoisson \in {[mu |-> m, areas |-> a, mean_pe_photon |-> pe, res |-> << >>,
                        called |-> FALSE] :
                          m \in [1..VecLen -> MuVals], a \in [1..VecLen -> ObsVals],
                          pe \in PeVals}
    /\ binom = NoBinom
    /\ nveto = NoVeto

CallModPoisson ==
    /\ ~modpoisson.called
    /\ modpoisson' = [modpoisson EXCEPT
                        !.res = Eval("neg2llh_modpoisson", modpoisson.mu, modpoisson.areas,
                                                   modpoisson.mean_pe_photon),
                        !.called = TRUE]
    /\ UNCHANGED <<events, result, binom, nveto>>

NextModPoisson == CallModPoisson

SpecModPoisson == InitModPoisson /\ [][NextModPoisson]_vars

\* binom_test on k = 0, 1, ..., n in turn
InitBinom ==
    /\ events = << >>
    /\ result = NoResult
    /\ modpoisson = NoModPoisson
    /\ binom \in {[n |-> N(n), p |-> p, runs |-> << >>, refl |-> << >>] :
                    n \in 0..MaxN, p \in Probs}
    /\ nveto = NoVeto

CallBinomTest ==
    LET k == N(Len(binom.runs))
    IN  /\ FLe(k, binom.n)
        /\ binom' = [binom EXCEPT
                       !.runs = Append(@, Eval("binom_test", k, binom.n, binom.p)),
                       !.refl = Append(@, Eval("binom_test", FSub(binom.n, k), binom.n,
                                                     FSub(N(1), binom.p)))]
        /\ UNCHANGED <<events, result, modpoisson, nveto>>

NextBinom == CallBinomTest

SpecBinom == InitBinom /\ [][NextBinom]_vars

\* binom_test on k = 0, 1, ..., n in turn, for the n whose search has three
\* outer iterations
InitSearch ==
    /\ events = << >>
    /\ result = NoResult
    /\ modpoisson = NoModPoisson
    /\ binom \in {[n |-> N(n), p |-> p, runs |-> << >>, refl |-> << >>] :
                    n \in (MaxIterN - 1)..MaxIterN, p \in Probs}
    /\ nveto = NoVeto

SpecSearch == InitSearch /\ [][NextBinom]_vars

\* ------------------------------------------------------------------------
\* nveto_recorder.py: the intervals of coincident pulses
\* ------------------------------------------------------------------------
\* An array is a sequence: the element numpy has at index i is at i + 1.

MaxStarts == 4
MaxStartTime == 5
MaxResolving == 2

\* the arrays of start times _merge_intervals is called on: not empty, sorted
StartTimes ==
    {s \in UNION {[1..l -> 0..MaxStartTime] : l \in 1..MaxStarts} :
        \A j \in 1..(Len(s) - 1) : s[j] <= s[j + 1]}

\* what a read beside an array can give: an index (of interval_starts) and a
\* time (of start_time)
JunkIdx == {0, 1, 77}
JunkVals == {-7, 0}
Junk == [first : JunkIdx, last : JunkIdx, val : JunkVals]

\* idx is an index of the array; a negative one counts from the end
InRange(array, idx) == idx >= -Len(array) /\ idx < Len(array)

\* array[idx] in the compiled function, which does not check the index: out of
\* range it reads what lies beside the array
ReadAt(array, idx, junk) ==
    IF ~InRange(array, idx) THEN junk
    ELSE IF idx < 0 THEN array[Len(array) + idx + 1]
    ELSE array[idx + 1]

\* diff: res[0] = 0 and res[i + 1] = array[i + 1] - array[i] for every i of
\* prange(length); out_of_range are the i whose array[i + 1] and res[i + 1]
\* are outside the arrays
diff(array) ==
    LET length == Len(array)
    IN  [res |-> [j \in 1..length |-> IF j = 1 THEN 0 ELSE array[j] - array[j - 1]],
         out_of_range |-> {i \in 0..(length - 1) : ~InRange(array, i + 1)}]

RECURSIVE Where(_, _)
\* np.arange(0, len(mask), 1)[mask], from index j - 1 on
Where(mask, j) ==
    IF j > Len(mask) THEN << >>
    ELSE (IF mask[j] THEN << j - 1 >> ELSE << >>) \o Where(mask, j + 1)

\* _merge_intervals: the rows it returns and the reads it made out of range
_merge_intervals(start_time, resolving_time, junk) ==
    LET d == diff(start_time)
        gaps == [j \in 1..Len(d.res) |-> d.res[j] > resolving_time]
        interval_starts == Where(gaps, 1)
        m == Len(interval_starts)
        rows == Cardinality({j \in 1..Len(gaps) : gaps[j]}) + 1
        \* the loop: row ind + 1 for the ind-th of interval_starts[:-1]
        looped == [r \in 1..rows |->
                     IF r >= 2 /\ r <= m
                     THEN LET csi == interval_starts[r - 1]
                              nsi == interval_starts[r]
                          IN  << start_time[csi + 1],
                                 start_time[nsi] + resolving_time >>
                     ELSE << 0, 0 >>]
        first_end == ReadAt(interval_starts, 0, junk.first) - 1
        last_start == ReadAt(interval_starts, -1, junk.last)
        row_0 == << ReadAt(start_time, 0, junk.val),
                    ReadAt(start_time, first_end, junk.val) + resolving_time >>
        row_last == << ReadAt(start_time, last_start, junk.val),
                       ReadAt(start_time, -1, junk.val) + resolving_time >>
    IN  [intervals |-> [r \in 1..rows |->
                          IF r = rows THEN row_last
                          ELSE IF r = 1 THEN row_0 ELSE looped[r]],
         out_of_range |->
             (IF d.out_of_range # {} THEN {"diff"} ELSE {})
             \cup (IF ~InRange(interval_starts, 0) THEN {"interval_starts[0]"} ELSE {})
             \cup (IF ~InRange(interval_starts, -1) THEN {"interval_starts[-1]"} ELSE {})
             \cup (IF ~InRange(start_time, first_end) THEN {"start_time[first]"} ELSE {})
             \cup (IF ~InRange(start_time, last_start) THEN {"start_time[last]"} ELSE {})]

\* one call of _merge_intervals
InitMerge ==
    /\ events = << >>
    /\ result = NoResult
    /\ modpoisson = NoModPoisson
    /\ binom = NoBinom
    /\ nveto \in {[called |-> FALSE, start_time |-> s, resolving_time |-> rt,
                   raised |-> FALSE, out_of_range |-> {}, intervals |-> << >>] :
                     s \in StartTimes, rt \in 0..MaxResolving}

\* The call in a build that checks the indices raises at the first access out
\* of range; in one that does not, the reads out of range give junk.
CallMergeIntervals ==
    /\ ~nveto.called
    /\ \E boundscheck \in BOOLEAN, junk \in Junk :
         LET r == _merge_intervals(nveto.start_time, nveto.resolving_time, junk)
             raised == boundscheck /\ r.out_of_range # {}
         IN  nveto' = [nveto EXCEPT
                         !.called = TRUE,
                         !.raised = raised,
                         !.out_of_range = r.out_of_range,
                         !.intervals = IF raised THEN << >> ELSE r.intervals]
    /\ UNCHANGED <<events, result, modpoisson, binom>>

SpecMerge == InitMerge /\ [][CallMergeIntervals]_vars

MaxRecords == 2
MaxIntervals == 2
MaxRecordTime == 4

PulseLengths == {1, 2}
SamplingTimes == {1, 2}

\* the raw records rr_in_interval is called on, sorted by time
Records ==
    {rr \in UNION {[1..l -> [time : 0..MaxRecordTime, pulse_length : PulseLengths,
                             dt : SamplingTimes]] : l \in 1..MaxRecords} :
        \A j \in 1..(Len(rr) - 1) : rr[j].time <= rr[j + 1].time}

\* the intervals it is called on, as _merge_intervals leaves them: ordered and
\* disjoint
Intervals ==
    {iv \in UNION {[1..l -> (0..MaxRecordTime) \X (0..MaxRecordTime)] :
                     l \in 1..MaxIntervals} :
        /\ \A j \in 1..Len(iv) : iv[j][1] <= iv[j][2]
        /\ \A j \in 1..(Len(iv) - 1) : iv[j][2] < iv[j + 1][1]}

MaxOf(S) == CHOOSE x \in S : \A y \in S : y <= x

\* the body of the loop of rr_in_interval on the record r
rr_in_interval(r, start_times, end_times) ==
    LET t == r.time
        which_interval == {j \in 1..Len(start_times) :
                             start_times[j] <= t /\ t < end_times[j]}
        t_end == t + r.pulse_length * r.dt
        new_end == MaxOf({end_times[MaxOf(which_interval)], t_end})
    IN  IF which_interval # {}
        THEN [in_window |-> 1, index |-> which_interval,
              end_times |-> [j \in 1..Len(end_times) |->
                               IF j \in which_interval THEN new_end ELSE end_times[j]]]
        ELSE [in_window |-> 0, index |-> {}, end_times |-> end_times]

\* one pass of rr_in_interval; i records are done, before and index are the
\* end times before the last one of them and the intervals it was in
InitRR ==
    /\ events = << >>
    /\ result = NoResult
    /\ modpoisson = NoModPoisson
    /\ binom = NoBinom
    /\ nveto \in {[rr |-> rr,
                   start_times |-> [j \in 1..Len(iv) |-> iv[j][1]],
                   end_times |-> [j \in 1..Len(iv) |-> iv[j][2]],
                   in_window |-> [j \in 1..Len(rr) |-> 0],
                   i |-> 0,
                   before |-> [j \in 1..Len(iv) |-> iv[j][2]],
                   index |-> {}] :
                     rr \in Records, iv \in Intervals}

NextRecord ==
    /\ nveto.i < Len(nveto.rr)
    /\ LET b == rr_in_interval(nveto.rr[nveto.i + 1], nveto.start_times, nveto.end_times)
       IN  nveto' = [nveto EXCEPT
                       !.in_window[nveto.i + 1] = b.in_window,
                       !.end_times = b.end_times,
                       !.i = @ + 1,
                       !.before = nveto.end_times,
                       !.index = b.index]
    /\ UNCHANGED <<events, result, modpoisson, binom>>

SpecRR == InitRR /\ [][NextRecord]_vars

\* ------------------------------------------------------------------------
\* the properties
\* ------------------------------------------------------------------------
\* compute was called and returned the rows
Returned == result.done /\ result.returned

Last(s) == s[Len(s)]

\* the resolution at which two p-values are told apart
Tol == Scale \div Kilo

Radius2(x, y) == FAdd(FMul(x, x), FMul(y, y))

MaxR2 == N(max_r_pattern_fit * max_r_pattern_fit)

\* one of the eligibility conditions of the S1 hypothesis fails
S1Ineligible(e) ==
    \/ e.s1_index = -1
    \/ ~FGt(e.s1_area, N(s1_min_area_pattern_fit))
    \/ FLt(e.s1_area_fraction_top, N(0))
    \/ ~IsFin(e.x) \/ ~IsFin(e.y) \/ ~IsFin(e.z)
    \/ ~FLt(Radius2(e.x, e.y), MaxR2)

\* every eligibility condition of the S1 hypothesis holds
S1Eligible(e) ==
    /\ e.s1_index # -1
    /\ FGt(e.s1_area, N(s1_min_area_pattern_fit))
    /\ FGe(e.s1_area_fraction_top, N(0))
    /\ IsFin(e.x) /\ IsFin(e.y) /\ IsFin(e.z)
    /\ FLt(Radius2(e.x, e.y), MaxR2)

S2Ineligible(e, t_) ==
    \/ e[t_ \o "_index"] = -1
    \/ ~FGt(e[t_ \o "_area"], N(s2_min_area_pattern_fit))
    \/ FLe(e[t_ \o "_area_fraction_top"], N(0))
    \/ ~IsFin(e[t_ \o "_x"]) \/ ~IsFin(e[t_ \o "_y"])
    \/ ~FLt(Radius2(e[t_ \o "_x"], e[t_ \o "_y"]), MaxR2)

S2Eligible(e, t_) ==
    /\ e[t_ \o "_index"] # -1
    /\ FGt(e[t_ \o "_area"], N(s2_min_area_pattern_fit))
    /\ FGt(e[t_ \o "_area_fraction_top"], N(0))
    /\ IsFin(e[t_ \o "_x"]) /\ IsFin(e[t_ \o "_y"])
    /\ FLt(Radius2(e[t_ \o "_x"], e[t_ \o "_y"]), MaxR2)

S1Scalars == {"s1_2llh", "s1_top_2llh", "s1_bottom_2llh"}

S2Hyps == {"s2", "alt_s2"}

C2_NonFiniteIsGated ==
    result.done =>
        \A i \in 1..Len(events) : \A hi \in 1..Len(S1Hyps) :
            LET e == events[i]
                h == S1Hyps[hi]
            IN  (~IsFin(e.aft_prob) \/ ~IsFin(e[h \o "_area"])
                   \/ ~IsFin(e[h \o "_area_fraction_top"])) =>
                    /\ result.returned
                    /\ \A o \in 1..Len(ProbOutputs) :
                          /\ SlotOf(events, hi, o, i) \notin result.tested
                          /\ IsNaN(result.rows[i][h \o ProbOutputs[o].name])

\* the arguments of call number s of the wrapper, and whether the mask lets
\* the call happen
SlotArg(s) ==
    ProbArg(events[SlotEvent(events, s)], S1Hyps[SlotHyp(events, s)], SlotOut(events, s))

SlotMasked(s) == mask_s1(events[SlotEvent(events, s)], S1Hyps[SlotHyp(events, s)])

\* call s was made before compute ended
SlotMade(s) == result.returned \/ s <= result.raised_at

\* n < k, p outside [0, 1] or k < 0
InvalidTriple(a) ==
    LET k == FMul(a.area_tot, a.area_fraction_top)
    IN  \/ FLt(a.area_tot, k)
        \/ FGt(a.aft_prob, N(1))
        \/ FLt(a.aft_prob, N(0))
        \/ FLt(k, N(0))

SlotField(s) == S1Hyps[SlotHyp(events, s)] \o ProbOutputs[SlotOut(events, s)].name

\* C3: a call of the wrapper on a triple with n < k, p outside [0, 1] or
\* k < 0 evaluates neither binom_test nor binom_pmf, raises nothing and leaves
\* NaN in its output, in the continuous and in the discrete mode, and the calls
\* made on the valid triples of the same batch are evaluated all the same.
C3_InvalidTripleIsNaN ==
    result.done =>
        \A s \in 1..NSlots(events) :
            (SlotMasked(s) /\ SlotMade(s) /\ InvalidTriple(SlotArg(s))) =>
                /\ s \notin result.tested
                /\ result.raised_at # s
                /\ result.returned => IsNaN(result.rows[SlotEvent(events, s)][SlotField(s)])
                /\ \A o \in 1..NSlots(events) :
                      (SlotMasked(o) /\ SlotMade(o) /\ ~InvalidTriple(SlotArg(o))) =>
                          o \in result.tested

\* C3 happens: in a batch of two events the first has an invalid triple in
\* both modes (continuous and discrete), the second a valid one whose
\* probabilities are computed
C3_Witness ==
    /\ Returned
    /\ Len(events) = 2
    /\ \A o \in 1..2 :
          /\ SlotMasked(SlotOf(events, 1, o, 1))
          /\ InvalidTriple(SlotArg(SlotOf(events, 1, o, 1)))
          /\ IsNaN(result.rows[1][SlotField(SlotOf(events, 1, o, 1))])
          /\ SlotOf(events, 1, o, 2) \in result.tested
          /\ IsFin(result.rows[2][SlotField(SlotOf(events, 1, o, 2))])

\* the inputs and the outcome of the latest call of binom_test
RunK == N(Len(binom.runs) - 1)

RunD == MulRerr(binom_pmf(RunK, binom.n, binom.p))

\* no n_ of np.arange(n, 2*n, 1) has a density below d
NoneBelow(n, p, d) ==
    \A i \in 0..(CeilInt(n[2]) - 1) : ~FLt(binom_pmf(FAdd(n, N(i)), n, p), d)

\* the bracket search of run r took place and ended without an adjacent pair
\* of sample points straddling d
NoStraddle(r) == r.hist # << >> /\ \A h \in 1..Len(r.hist) : ~r.hist[h].updated

C5_TwiceMuAlways ==
    modpoisson.called =>
        \A c \in DOMAIN modpoisson.mu :
            FLe(modpoisson.areas[c], N(0)) =>
                modpoisson.res[c] = FMul(N(2), modpoisson.mu[c])

\* C5 (amended): a channel with an observed area <= 0 gets exactly 2*mu when mu
\* is not negative (NaN when mu is NaN) and exactly 0 when mu is negative,
\* whatever the other channels and mean_pe_photon.
C5_TwiceMuOrZero ==
    modpoisson.called =>
        \A c \in DOMAIN modpoisson.mu :
            FLe(modpoisson.areas[c], N(0)) =>
                modpoisson.res[c] = IF FLt(modpoisson.mu[c], N(0)) THEN N(0)
                                    ELSE FMul(N(2), modpoisson.mu[c])

\* C5 happens: one call with an empty channel of negative expectation, which
\* gets 0, and an empty channel of positive expectation, which gets 2*mu
C5_Witness ==
    /\ modpoisson.called
    /\ \E c \in DOMAIN modpoisson.mu :
          /\ FLe(modpoisson.areas[c], N(0))
          /\ FLt(modpoisson.mu[c], N(0))
          /\ modpoisson.res[c] = N(0)
    /\ \E c \in DOMAIN modpoisson.mu :
          /\ FLe(modpoisson.areas[c], N(0))
          /\ FGt(modpoisson.mu[c], N(0))
          /\ modpoisson.res[c] = FMul(N(2), modpoisson.mu[c])

\* the predicted pattern equals the observed areas on the channels S
Matches(pattern, area_per_channel, S) ==
    \A c \in S : FEq(pattern[c], area_per_channel[c])

TopArea(e, t_) == FMul(e[t_ \o "_area_fraction_top"], e[t_ \o "_area"])

BottomArea(e) == FMul(FSub(N(1), e.s1_area_fraction_top), e.s1_area)

\* C6: for an eligible event and a channel subset (all, top, bottom for S1;
\* top for an S2 hypothesis) whose predicted pattern equals the observed areas
\* on the usable channels, the aggregated statistic is exactly 0, also when
\* observed areas are zero or negative.
C6_MatchedPatternIsZero ==
    Returned =>
        \A i \in 1..Len(events) :
            LET e == events[i]
                r == result.rows[i]
            IN  /\ S1Eligible(e) =>
                      /\ Matches(ExpectedPattern(e.s1_area, e.s1_map_effs, pmtbool),
                                 e.s1_area_per_channel, pmtbool) => r.s1_2llh = N(0)
                      /\ Matches(ExpectedPattern(TopArea(e, "s1"), e.s1_map_effs, pmtbool_top),
                                 e.s1_area_per_channel, pmtbool_top) => r.s1_top_2llh = N(0)
                      /\ Matches(ExpectedPattern(BottomArea(e), e.s1_map_effs, pmtbool_bottom),
                                 e.s1_area_per_channel, pmtbool_bottom)
                            => r.s1_bottom_2llh = N(0)
                /\ \A t_ \in S2Hyps :
                      (/\ S2Eligible(e, t_)
                       /\ Matches(ExpectedPattern(TopArea(e, t_), e[t_ \o "_map_effs"],
                                                  pmtbool_top),
                                  e[t_ \o "_area_per_channel"], pmtbool_top))
                          => r[t_ \o "_2llh"] = N(0)

\* C6 happens: an eligible event whose top pattern matches with an empty
\* channel and whose bottom pattern matches with a negative area, both with
\* statistic 0, and whose S2 pattern matches with positive areas
C6_Witness ==
    /\ Returned
    /\ \E i \in 1..Len(events) :
          LET e == events[i]
              r == result.rows[i]
          IN  /\ S1Eligible(e)
              /\ Matches(ExpectedPattern(TopArea(e, "s1"), e.s1_map_effs, pmtbool_top),
                         e.s1_area_per_channel, pmtbool_top)
              /\ \E c \in pmtbool_top : FEq(e.s1_area_per_channel[c], N(0))
              /\ r.s1_top_2llh = N(0)
              /\ Matches(ExpectedPattern(BottomArea(e), e.s1_map_effs, pmtbool_bottom),
                         e.s1_area_per_channel, pmtbool_bottom)
              /\ \E c \in pmtbool_bottom : FLt(e.s1_area_per_channel[c], N(0))
              /\ r.s1_bottom_2llh = N(0)
              /\ S2Eligible(e, "s2")
              /\ Matches(ExpectedPattern(TopArea(e, "s2"), e.s2_map_effs, pmtbool_top),
                         e.s2_area_per_channel, pmtbool_top)
              /\ \A c \in pmtbool_top : FGt(e.s2_area_per_channel[c], N(0))
              /\ r.s2_2llh = N(0)

\* a usable channel of S has a NaN observed area or a NaN map efficiency
NaNChannel(area_per_channel, effs, S) ==
    \E c \in S : IsNaN(area_per_channel[c]) \/ IsNaN(effs[c])

\* C7: for an eligible event and a channel subset with a usable channel whose
\* observed area or map efficiency is NaN, the aggregated statistic of the
\* subset is NaN: the override of neg2llh_modpoisson for areas that are not
\* positive does not make such a channel contribute a finite difference.
C7_NaNChannelIsNaN ==
    Returned =>
        \A i \in 1..Len(events) :
            LET e == events[i]
                r == result.rows[i]
            IN  /\ S1Eligible(e) =>
                      /\ NaNChannel(e.s1_area_per_channel, e.s1_map_effs, pmtbool)
                            => IsNaN(r.s1_2llh)
                      /\ NaNChannel(e.s1_area_per_channel, e.s1_map_effs, pmtbool_top)
                            => IsNaN(r.s1_top_2llh)
                      /\ NaNChannel(e.s1_area_per_channel, e.s1_map_effs, pmtbool_bottom)
                            => IsNaN(r.s1_bottom_2llh)
                /\ \A t_ \in S2Hyps :
                      (/\ S2Eligible(e, t_)
                       /\ NaNChannel(e[t_ \o "_area_per_channel"], e[t_ \o "_map_effs"],
                                     pmtbool_top))
                          => IsNaN(r[t_ \o "_2llh"])

\* C7 happens: an eligible event with a NaN observed area in a usable bottom
\* channel of negative expectation and finite efficiencies: the statistics of
\* all channels and of the bottom are NaN, that of the top is not
C7_Witness ==
    /\ Returned
    /\ \E i \in 1..Len(events) :
          LET e == events[i]
              r == result.rows[i]
          IN  /\ S1Eligible(e)
              /\ \E c \in pmtbool_bottom : IsNaN(e.s1_area_per_channel[c])
              /\ \A c \in pmtbool : IsFin(e.s1_map_effs[c])
              /\ FLt(BottomArea(e), N(0))
              /\ IsNaN(r.s1_2llh)
              /\ IsNaN(r.s1_bottom_2llh)
              /\ IsFin(r.s1_top_2llh)

\* two p-values agree at the resolution Tol
Close(a, b) ==
    \/ IsNaN(a) /\ IsNaN(b)
    \/ IsFin(a) /\ IsFin(b) /\ Abs(a[2] - b[2]) <= Tol

\* C8: binom_test(k, n, p) equals binom_test(n - k, n, 1 - p) for 0 <= k <= n
\* and p in [0, 1], the boundaries k = 0 and k = n included.
C8_Reflection ==
    binom.runs # << >> =>
        /\ ~Last(binom.runs).raised
        /\ ~Last(binom.refl).raised
        /\ Close(Last(binom.runs).pval, Last(binom.refl).pval)

\* the distance of k from n*p, and k1 and k2 lying on one side of it
Dist(k) == Abs(k * Scale - FMul(binom.n, binom.p)[2])

SameSide(k1, k2) ==
    LET m == FMul(binom.n, binom.p)[2]
    IN  \/ k1 * Scale <= m /\ k2 * Scale <= m
        \/ k1 * Scale >= m /\ k2 * Scale >= m

\* C9: for k1 and k2 on the same side of n*p with |k1 - n*p| <= |k2 - n*p|,
\* binom_test(k2, n, p) <= binom_test(k1, n, p).
C9_Monotone ==
    \A k1, k2 \in 0..(Len(binom.runs) - 1) :
        (SameSide(k1, k2) /\ Dist(k1) <= Dist(k2)) =>
            /\ IsFin(binom.runs[k1 + 1].pval)
            /\ IsFin(binom.runs[k2 + 1].pval)
            /\ binom.runs[k2 + 1].pval[2] <= binom.runs[k1 + 1].pval[2] + Tol

\* a p-value of approximately 1: at least 9/10
NearOne(a) == IsFin(a) /\ 10 * a[2] >= 9 * Scale

\* C10: with k = n*p (n >= 1, 0 < p < 1) binom_test returns approximately 1.0.
C10_ModeIsOne ==
    (/\ binom.runs # << >>
     /\ FGe(binom.n, N(1))
     /\ FGt(binom.p, N(0))
     /\ FLt(binom.p, N(1))
     /\ FEq(RunK, FMul(binom.n, binom.p))) => NearOne(Last(binom.runs).pval)

\* a probability: a real number in [0, 1]
InUnit(a) == IsFin(a) /\ a[2] >= 0 /\ a[2] <= Scale

\* the continuous outputs, by their position in ProbOutputs
Continuous == {o \in 1..Len(ProbOutputs) : ProbOutputs[o].mode = "continuous"}

\* C11: every continuous-probability output that compute returns is NaN or a
\* real number in [0, 1], and it is NaN only for an event and hypothesis that
\* the mask excludes (a NaN map probability, area or top fraction) or whose
\* triple is invalid (n < k, p outside [0, 1], k < 0): on every other triple
\* binom_test returns a value in [0, 1], 0.0 in its degenerate branch.
C11_ProbabilityInUnitRange ==
    Returned =>
        \A s \in 1..NSlots(events) :
            SlotOut(events, s) \in Continuous =>
                LET v == result.rows[SlotEvent(events, s)][SlotField(s)]
                IN  /\ IsNaN(v) \/ InUnit(v)
                    /\ IsNaN(v) => (~SlotMasked(s) \/ InvalidTriple(SlotArg(s)))

\* C11 happens: an event with a valid triple whose two continuous S1
\* probabilities lie strictly between 0 and 1, and whose alternative S1,
\* which the mask excludes, has NaN
C11_Witness ==
    /\ Returned
    /\ \A o \in Continuous :
          LET s == SlotOf(events, 1, o, 1)
              v == result.rows[1][SlotField(s)]
          IN  /\ SlotMasked(s)
              /\ ~InvalidTriple(SlotArg(s))
              /\ InUnit(v) /\ v[2] > 0 /\ v[2] < Scale
    /\ ~SlotMasked(SlotOf(events, 2, 1, 1))
    /\ IsNaN(result.rows[1].alt_s1_area_fraction_top_continuous_probability)

\* the sum of the efficiencies effs over the usable channels S is positive
\* and finite
PositiveSum(effs, S) == IsFin(SumCh(effs, S)) /\ SumCh(effs, S)[2] > 0

\* the area and the top fraction of hypothesis t_ are finite numbers
FiniteAreas(e, t_) == IsFin(e[t_ \o "_area"]) /\ IsFin(e[t_ \o "_area_fraction_top"])

\* the pattern sums over the channels S to total
SumsTo(pattern, S, total) == Close(SumCh(pattern, S), total)

\* C12 (as stated): for an eligible event of finite areas the S1 pattern sums
\* over the usable channels to s1_area, its top and bottom sub-patterns to
\* s1_area*aft and s1_area*(1 - aft), and the S2 pattern to the total area of
\* the S2, whenever the efficiencies of the channels summed over have a
\* positive, finite sum.
C12_SumsToTotalArea ==
    Returned =>
        \A i \in 1..Len(events) :
            LET e == events[i]
                r == result.rows[i]
            IN  /\ (S1Eligible(e) /\ FiniteAreas(e, "s1")) =>
                      /\ PositiveSum(e.s1_map_effs, pmtbool) =>
                            SumsTo(r.s1_pattern, pmtbool, e.s1_area)
                      /\ PositiveSum(e.s1_map_effs, pmtbool_top) =>
                            SumsTo(ExpectedPattern(TopArea(e, "s1"), e.s1_map_effs, pmtbool_top),
                                   pmtbool_top, TopArea(e, "s1"))
                      /\ PositiveSum(e.s1_map_effs, pmtbool_bottom) =>
                            SumsTo(ExpectedPattern(BottomArea(e), e.s1_map_effs,
                                                   pmtbool_bottom),
                                   pmtbool_bottom, BottomArea(e))
                /\ \A t_ \in S2Hyps :
                      (/\ S2Eligible(e, t_)
                       /\ FiniteAreas(e, t_)
                       /\ PositiveSum(e[t_ \o "_map_effs"], pmtbool_top))
                          => SumsTo(r[t_ \o "_pattern"], pmtbool_top, e[t_ \o "_area"])

\* C12 (amended): as above for the S1 patterns, whose top and bottom sums add
\* up to s1_area; the S2 pattern sums over the usable top channels to the top
\* area of the S2, area_fraction_top * area.
C12_SumsToAssignedArea ==
    Returned =>
        \A i \in 1..Len(events) :
            LET e == events[i]
                r == result.rows[i]
            IN  /\ (S1Eligible(e) /\ FiniteAreas(e, "s1")) =>
                      /\ PositiveSum(e.s1_map_effs, pmtbool) =>
                            SumsTo(r.s1_pattern, pmtbool, e.s1_area)
                      /\ PositiveSum(e.s1_map_effs, pmtbool_top) =>
                            SumsTo(ExpectedPattern(TopArea(e, "s1"), e.s1_map_effs, pmtbool_top),
                                   pmtbool_top, TopArea(e, "s1"))
                      /\ PositiveSum(e.s1_map_effs, pmtbool_bottom) =>
                            SumsTo(ExpectedPattern(BottomArea(e), e.s1_map_effs,
                                                   pmtbool_bottom),
                                   pmtbool_bottom, BottomArea(e))
                      /\ (PositiveSum(e.s1_map_effs, pmtbool_top)
                            /\ PositiveSum(e.s1_map_effs, pmtbool_bottom)) =>
                            Close(FAdd(SumCh(ExpectedPattern(TopArea(e, "s1"), e.s1_map_effs,
                                                             pmtbool_top), pmtbool_top),
                                       SumCh(ExpectedPattern(BottomArea(e), e.s1_map_effs,
                                                             pmtbool_bottom), pmtbool_bottom)),
                                  e.s1_area)
                /\ \A t_ \in S2Hyps :
                      (/\ S2Eligible(e, t_)
                       /\ FiniteAreas(e, t_)
                       /\ PositiveSum(e[t_ \o "_map_effs"], pmtbool_top))
                          => SumsTo(r[t_ \o "_pattern"], pmtbool_top, TopArea(e, t_))

\* C12 happens: an eligible event with a dead channel of non-zero efficiency
\* whose S1 pattern sums to s1_area over the usable channels, and whose S2
\* pattern sums to the top area of the S2, which is smaller than its area
C12_Witness ==
    /\ Returned
    /\ \E i \in 1..Len(events) :
          LET e == events[i]
              r == result.rows[i]
          IN  /\ S1Eligible(e)
              /\ PositiveSum(e.s1_map_effs, pmtbool)
              /\ \E c \in dead_PMTs : FGt(e.s1_map_effs[c], N(0))
              /\ SumsTo(r.s1_pattern, pmtbool, e.s1_area)
              /\ S2Eligible(e, "s2")
              /\ PositiveSum(e.s2_map_effs, pmtbool_top)
              /\ FLt(TopArea(e, "s2"), e.s2_area)
              /\ SumsTo(r.s2_pattern, pmtbool_top, TopArea(e, "s2"))

\* what compute returns for event i of the batch when it is handed that event
\* alone
Alone(i) == compute(<< events[i] >>)

\* C13: the row of an event depends on that event alone: whenever compute
\* returns a row for an event handed to it alone, it returns the same row, at
\* the position of the event, for every batch that contains the event,
\* whatever the other events of the batch are.
C13_RowOfOwnEvent ==
    result.done =>
        \A i \in 1..Len(events) :
            Alone(i).returned =>
                /\ result.returned
                /\ result.rows[i] = Alone(i).rows[1]
                /\ result.rows[i].time = events[i].time

\* the value of the formula of neg2llh_modpoisson in channel c of the latest
\* call, before the overrides
Formula(c) ==
    LET q == FDiv(modpoisson.areas[c], modpoisson.mean_pe_photon)
    IN  FMul(N(2), FAdd(FAdd(FSub(modpoisson.mu[c], FMul(q, FLog(modpoisson.mu[c]))),
                             loggamma(FAdd(q, N(1)))),
                        FLog(modpoisson.mean_pe_photon)))

OuterIterations(n) == IF FLt(n, N(32)) THEN 2 ELSE 3

\* the width of the bracket that outer iteration h of run r starts from
WidthBefore(r, h) ==
    IF h = 1 THEN r.start[2] - r.start[1]
    ELSE r.hist[h - 1].j_max - r.hist[h - 1].j_min

\* the downward case in which pmf(0) exceeds the target d
ShortCircuit == ~FLt(RunK, FMul(binom.n, binom.p))
                /\ FGt(binom_pmf(N(0), binom.n, binom.p), RunD)

\* C15: for valid k, p and n > 0 binom_test ends without an exception, and
\* when its bracket search runs, the outer loop makes exactly
\* max(round(log10(n)) + 1, 2) iterations (0 in the downward case where pmf(0)
\* exceeds the target), numbered 0, 1, 2, ... whatever value the inner loop
\* leaves in the shared index name; the iterations raised to 50 sample points
\* are the first two (when the bracket is narrower than 50), and no other.
C15_OuterIterations ==
    (binom.runs # << >> /\ FGt(binom.n, N(0))) =>
        LET r == Last(binom.runs)
        IN  /\ ~r.raised
            /\ ~r.degenerate =>
                  /\ Len(r.hist) = IF ShortCircuit THEN 0 ELSE OuterIterations(binom.n)
                  /\ \A h \in 1..Len(r.hist) :
                        /\ r.hist[h].i = h - 1
                        /\ h <= 2 => r.hist[h].n_pts = IF Trunc(WidthBefore(r, h)) < MinPts
                                                       THEN MinPts
                                                       ELSE Trunc(WidthBefore(r, h))
                        /\ h > 2 => r.hist[h].n_pts = Trunc(WidthBefore(r, h))

\* C15 happens: a search of three outer iterations whose first inner loop
\* leaves a value of 2 or more in the shared index name; the second iteration
\* still runs as number 1 with 50 points, the third as number 2 with the
\* fewer points of its bracket
C15_Witness ==
    /\ binom.runs # << >>
    /\ LET r == Last(binom.runs)
       IN  /\ ~r.raised /\ ~r.degenerate
           /\ Len(r.hist) = 3
           /\ r.hist[1].shadow >= 2
           /\ r.hist[2].i = 1
           /\ r.hist[2].n_pts = MinPts
           /\ Trunc(WidthBefore(r, 2)) < MinPts
           /\ r.hist[3].i = 2
           /\ r.hist[3].n_pts < MinPts

\* the density at the point j of the latest call
DensityAt(j) == binom_pmf(F(j), binom.n, binom.p)

\* the bracket before outer iteration h of run r
BracketBefore(r, h) ==
    IF h = 1 THEN r.start ELSE << r.hist[h - 1].j_min, r.hist[h - 1].j_max >>

\* the offsets i of the n_ = n + i of np.arange(n, 2*n, 1) with a density
\* below d
BelowOffsets ==
    {i \in 0..(CeilInt(binom.n[2]) - 1) : FLt(DensityAt(binom.n[2] + i * Scale), RunD)}

\* the upward bracket of the claim: [k, n], or [k, n_] for the first n_ whose
\* density is below d when the density at n is above d
UpwardStart ==
    IF FGt(DensityAt(binom.n[2]), RunD)
    THEN << RunK[2], binom.n[2]
                     + Scale * (CHOOSE i \in BelowOffsets : \A o \in BelowOffsets : i <= o) >>
    ELSE << RunK[2], binom.n[2] >>

\* what C16 says of a run r whose search is reached, but for its initial
\* bracket: the brackets are ordered and nested, an updated bracket straddles
\* d in the sense of its side, and j lies on the side of k within [0, n]
BracketsShrink(r) ==
    /\ r.upward = FLt(RunK, FMul(binom.n, binom.p))
    /\ r.start[1] <= r.start[2]
    /\ \A h \in 1..Len(r.hist) :
          LET b == r.hist[h]
          IN  /\ b.j_min <= b.j_max
              /\ BracketBefore(r, h)[1] <= b.j_min
              /\ b.j_max <= BracketBefore(r, h)[2]
              /\ (b.updated /\ r.upward) =>
                    (FGe(DensityAt(b.j_min), RunD) /\ FGt(RunD, DensityAt(b.j_max)))
              /\ (b.updated /\ ~r.upward) =>
                    (FLe(DensityAt(b.j_min), RunD) /\ FLt(RunD, DensityAt(b.j_max)))
              /\ ~b.updated => << b.j_min, b.j_max >> = BracketBefore(r, h)
    /\ r.upward => FGe(r.j, RunK)
    /\ ~r.upward => FLe(r.j, RunK)
    /\ FGe(r.j, N(0)) /\ FLe(r.j, binom.n)

\* C16 (as stated): with k < n*p the initial bracket is [k, n], or [k, n_] for
\* the first n_ in [n, 2n) whose density is below d when the density at n is
\* above d; otherwise it is [0, k].  After every outer iteration j_min <= j_max
\* and the bracket lies within the previous one, an updated bracket straddles
\* d, and the final j is >= k upwards, <= k downwards and within [0, n].
C16_BracketFromZeroToK ==
    (binom.runs # << >> /\ ~Last(binom.runs).raised /\ ~Last(binom.runs).degenerate) =>
        LET r == Last(binom.runs)
        IN  /\ r.upward => r.start = UpwardStart
            /\ ~r.upward => r.start = << 0, RunK[2] >>
            /\ BracketsShrink(r)

\* C16 (amended): as above, but in the downward case the initial bracket is
\* [0, 0], with no outer iteration, when pmf(0) exceeds d, and [0, k] when it
\* does not.
C16_BracketOfTheSide ==
    (binom.runs # << >> /\ ~Last(binom.runs).raised /\ ~Last(binom.runs).degenerate) =>
        LET r == Last(binom.runs)
        IN  /\ r.upward => r.start = UpwardStart
            /\ (~r.upward /\ ShortCircuit) => (r.start = << 0, 0 >> /\ r.hist = << >>)
            /\ (~r.upward /\ ~ShortCircuit) => r.start = << 0, RunK[2] >>
            /\ BracketsShrink(r)

\* C16 happens: a sequence of calls with an upward search that starts from
\* [k, n] and narrows its bracket in both outer iterations, and a downward run
\* with k > 0 that starts from [0, 0] and ends with j = 0
C16_Witness ==
    /\ Len(binom.runs) >= 2
    /\ \E a \in 1..Len(binom.runs) :
          LET r == binom.runs[a]
          IN  /\ ~r.raised /\ ~r.degenerate /\ r.upward
              /\ r.start = << (a - 1) * Scale, binom.n[2] >>
              /\ Len(r.hist) = 2
              /\ r.hist[1].updated /\ r.hist[2].updated
              /\ r.hist[2].j_max - r.hist[2].j_min < r.hist[1].j_max - r.hist[1].j_min
              /\ FGe(r.j, N(a - 1))
    /\ LET r == Last(binom.runs)
       IN  /\ ~r.raised /\ ~r.degenerate /\ ~r.upward
           /\ FGt(RunK, N(0))
           /\ r.start = << 0, 0 >>
           /\ r.j = N(0)

\* the larger and the smaller of two finite floats
Larger(a, b) == IF Ord(a) >= Ord(b) THEN a ELSE b

Smaller(a, b) == IF Ord(a) <= Ord(b) THEN a ELSE b

\* the upper tail beyond the larger of k and j, and the lower tail up to the
\* smaller of them, for run number a (k = a - 1) of the latest calls
UpperTail(a) == binom_sf(Larger(N(a - 1), binom.runs[a].j), binom.n, binom.p)

LowerTail(a) == binom_cdf(Smaller(N(a - 1), binom.runs[a].j), binom.n, binom.p)

\* the final bracket of run r and its midpoint, clamped to [0, n]
FinalBracket(r) == IF r.hist = << >> THEN r.start ELSE << Last(r.hist).j_min, Last(r.hist).j_max >>

Midpoint(r) ==
    LET m == (FinalBracket(r)[1] + FinalBracket(r)[2]) \div 2
    IN  IF m > binom.n[2] THEN binom.n ELSE IF m < 0 THEN N(0) ELSE F(m)

\* C17: a run of binom_test that does not take the degenerate branch returns
\* a value fixed by k and the final j, the clamped midpoint of the last
\* bracket: the upper tail sf(max(k, j), n, p) alone if k*j == 0, and
\* min(1.0, cdf(min(k, j), n, p) + sf(max(k, j), n, p)) otherwise; in the
\* downward case where pmf(0, n, p) exceeds d, j is 0 and the result sf(k, n, p).
C17_TailsOfKAndJ ==
    \A a \in 1..Len(binom.runs) :
        LET r == binom.runs[a]
            k == N(a - 1)
        IN  (~r.raised /\ ~r.degenerate) =>
                /\ r.j = Midpoint(r)
                /\ FEq(FMul(k, r.j), N(0)) => r.pval = UpperTail(a)
                /\ ~FEq(FMul(k, r.j), N(0)) =>
                      r.pval = IF FGt(FAdd(LowerTail(a), UpperTail(a)), N(1)) THEN N(1)
                               ELSE FAdd(LowerTail(a), UpperTail(a))
                /\ (~r.upward /\ FGt(binom_pmf(N(0), binom.n, binom.p), r.d)) =>
                      (r.j = N(0) /\ r.pval = binom_sf(k, binom.n, binom.p))

\* C17 happens: a sequence of calls whose run for k = 0 found j > 0 and
\* returned the upper tail beyond j alone, the lower tail being positive;
\* whose run for k = 1 returned the sum of both tails; and whose latest run,
\* downward with pmf(0) above d, has j = 0 and returned sf(k)
C17_Witness ==
    /\ Len(binom.runs) >= 3
    /\ LET r == binom.runs[1]
       IN  /\ ~r.raised /\ ~r.degenerate
           /\ FGt(r.j, N(0))
           /\ FGt(LowerTail(1), N(0))
           /\ r.pval = UpperTail(1)
    /\ LET r == binom.runs[2]
       IN  /\ ~r.raised /\ ~r.degenerate
           /\ FGt(r.j, N(1))
           /\ FGt(LowerTail(2), N(0)) /\ FGt(UpperTail(2), N(0))
           /\ r.pval = FAdd(LowerTail(2), UpperTail(2))
    /\ LET r == Last(binom.runs)
       IN  /\ ~r.raised /\ ~r.degenerate /\ ~r.upward
           /\ FGt(binom_pmf(N(0), binom.n, binom.p), r.d)
           /\ r.j = N(0)
           /\ r.pval = binom_sf(RunK, binom.n, binom.p)
           /\ FGt(r.pval, N(0))
\* the starts of the groups of start times: the first one and each one more
\* than resolving_time after the one before it
GroupStarts ==
    {j \in 1..Len(nveto.start_time) :
        j = 1 \/ nveto.start_time[j] - nveto.start_time[j - 1] > nveto.resolving_time}

\* the last start time of the group that starts at a
GroupEnd(a) ==
    MaxOf({b \in a..Len(nveto.start_time) : \A j \in (a + 1)..b : j \notin GroupStarts})

\* the call returned, and no access of it was out of range
NoOutOfRange == ~nveto.raised /\ nveto.out_of_range = {}

\* the intervals are those of the groups, in order, apart from one another,
\* and each start time is in one of them only
AsGrouped ==
    LET iv == nveto.intervals
        st == nveto.start_time
    IN  /\ Len(iv) = Cardinality(GroupStarts)
        /\ \A r \in 1..(Len(iv) - 1) : iv[r][2] < iv[r + 1][1]
        /\ \A r \in 1..Len(iv) :
             \E a \in GroupStarts :
                /\ Cardinality({g \in GroupStarts : g < a}) = r - 1
                /\ iv[r] = << st[a], st[GroupEnd(a)] + nveto.resolving_time >>
        /\ \A j \in 1..Len(st) :
             Cardinality({r \in 1..Len(iv) : iv[r][1] <= st[j] /\ st[j] <= iv[r][2]}) = 1

\* C18: for every sorted array of start times that is not empty and every
\* resolving_time >= 0, _merge_intervals accesses no index out of range and
\* returns one interval more than there are gaps above resolving_time; the
\* intervals are in order and disjoint, each one is [first start of its group,
\* last start of its group + resolving_time], and every start time is in
\* exactly one of them.
C18_MergesTheGroups == nveto.called => NoOutOfRange /\ AsGrouped

\* the record rr_in_interval processed last, and the intervals it was in with
\* the end times the records before it left
LastRecord == nveto.rr[nveto.i]
Contained ==
    {j \in 1..Len(nveto.start_times) :
        nveto.start_times[j] <= LastRecord.time /\ LastRecord.time < nveto.before[j]}

\* the record processed last is tagged 1 exactly when an interval contained it
TaggedWhenContained == (nveto.in_window[nveto.i] = 1) <=> (Contained # {})

\* the highest of the intervals that contained it ends no earlier than the record
HighestCoversRecord ==
    Contained # {} =>
        nveto.end_times[MaxOf(Contained)] >=
            LastRecord.time + LastRecord.pulse_length * LastRecord.dt

\* the intervals that did not contain it are as they were
OthersUnchanged ==
    \A j \in 1..Len(nveto.end_times) :
        j \notin Contained => nveto.end_times[j] = nveto.before[j]

\* no interval ends earlier than before the record
NoEndDecreases ==
    \A j \in 1..Len(nveto.end_times) : nveto.end_times[j] >= nveto.before[j]

\* C19: rr_in_interval tags a record 1 exactly when start <= t < end for some
\* interval, with the end times the earlier records left; a tagged record only
\* extends intervals: each interval that contained it ends no earlier than
\* before, the highest of them no earlier than t + pulse_length * dt; all other
\* intervals are unchanged, so that no end time decreases over the pass.
C19_OnlyExtends ==
    nveto.i > 0 =>
        /\ TaggedWhenContained
        /\ HighestCoversRecord
        /\ OthersUnchanged
        /\ NoEndDecreases

====
